---- MODULE Spec2Model ----
(***************************************************************************)
(* Travel-Planner: projects of up to 10 places (artworks), each validated  *)
(* against the Art Institute catalog.  The model follows the Django/DRF    *)
(* handlers of src/core: every database statement or query of a handler is *)
(* one atomic step of the worker that serves the request (the code opens   *)
(* no transaction and takes no lock; the database runs in autocommit).     *)
(***************************************************************************)
EXTENDS Integers, Sequences, FiniteSets, TLC

VARIABLES
    projects,     \* table core_project: pk -> [name, is_completed]
    places,       \* table core_place: pk -> [project, artwork_id, title, image_id, notes, visited]
    nextProject,  \* autoincrement of core_project
    nextPlace,    \* autoincrement of core_place
    cache,        \* django cache: artwork_id -> [value: the cached lookup result,
                  \*                               old: set long enough ago to expire]
    pc,           \* per worker: "idle" or the next step of the request it serves
    req,          \* per worker: the request's input and the handler's local variables
    last,         \* per worker: the response of the last request it completed
    nreq          \* number of requests received so far

vars == <<projects, places, nextProject, nextPlace, cache, pc, req, last, nreq>>

----------------------------------------------------------------------------
(* Bounds of the model *)

\* project pks handed out (and addressed by requests): 1..MaxProjects
MaxProjects == 1
\* place pks addressed by update place / delete place requests: 1..MaxTargetPk
MaxTargetPk == 2
\* requests received in a run of non-overlapping requests
MaxSeqRequests == 4
\* requests received in a run of interleaved requests
MaxConcRequests == 3

(* Program constants *)

\* views.py:72  project.places.count() >= 10
PLACE_LIMIT == 10
\* serializers.py:37  len(value) > 10
INLINE_LIMIT == 10

----------------------------------------------------------------------------
(* Inputs *)

Workers == {"w1", "w2"}
ProjectIds == 1 .. MaxProjects

\* ... and one project more, for requests that address one project next to another
SeveralProjectIds == 1 .. (MaxProjects + 1)
TargetPks == 1 .. MaxTargetPk

\* request.data.get('artwork_id') is None
NoArtwork == 0
\* artwork ids an add place request carries
AddArtworks == {NoArtwork, 1, 10, 11}

\* the entries {artwork_id: 1..n, visited: v} of an inline places list
RECURSIVE Entries(_, _)
Entries(n, v) ==
    IF n = 0 THEN << >>
    ELSE Append(Entries(n - 1, v), [artwork_id |-> n, visited |-> v])

\* the places lists a create project request carries
InlineLists ==
    { Entries(0, FALSE), Entries(2, FALSE), Entries(2, TRUE), Entries(9, FALSE),
      Entries(11, FALSE),
      << [artwork_id |-> 1, visited |-> FALSE], [artwork_id |-> 1, visited |-> FALSE] >> }

\* the body of a PATCH of a place: the keys it carries (has) and their values
PlacePayload(has, v, n) ==
    [has |-> has, visited |-> v, notes |-> n,
     artwork_id |-> 999, title |-> <<"title", 999>>, image_id |-> <<"image", 999>>]

\* ... carrying visited only
VisitedPayloads == { PlacePayload({"visited"}, v, "") : v \in BOOLEAN }

\* ... carrying notes, or values for the other columns too
UpdatePayloads ==
    VisitedPayloads
    \cup { PlacePayload({"notes"}, FALSE, "seen"),
           PlacePayload({"artwork_id"}, FALSE, ""),
           PlacePayload({"artwork_id", "title", "image_id", "notes", "visited"}, TRUE, "seen") }

\* the body of a POST or PATCH of a project, without its places
ProjectPayload(has, n, c) == [has |-> has, name |-> n, is_completed |-> c]

\* ... carrying the name only
NamePayloads == { ProjectPayload({"name"}, "trip", FALSE) }

\* ... carrying is_completed too, or no name
ProjectPayloads ==
    NamePayloads
    \cup { ProjectPayload({"name", "is_completed"}, "trip", TRUE),
           ProjectPayload({"name", "is_completed"}, "tour", FALSE),
           ProjectPayload({"is_completed"}, "", TRUE) }

NoPayload == [has |-> {}]

\* what the catalog does with one GET /artworks/{id}
ApiOutcomes == {"200", "404", "500", "timeout", "network"}

----------------------------------------------------------------------------
(* Values *)

UnknownTitle == <<"Unknown Title", 0>>
CatalogTitle(a) == <<"title", a>>
NoImage == <<"None", 0>>

\* the record the catalog holds for artwork a: response.json()['data']
CatalogRecord(a) == [id |-> a, title |-> CatalogTitle(a), image_id |-> <<"image", a>>]

\* dict.get(key, default)
DictGet(d, k, default) == IF k \in DOMAIN d THEN d[k] ELSE default

IdleReq ==
    [op |-> "none", proj |-> 0, pk |-> 0, art |-> 0, payload |-> NoPayload,
     entries |-> << >>, inst |-> {}, pinst |-> {}, flag |-> FALSE,
     data |-> {}, http |-> "none"]

NoResponse == [op |-> "none", kind |-> "none"]

\* project.places.all()
PlacesOf(p) == { k \in DOMAIN places : places[k].project = p }

\* a function with key k bound to v (an INSERT, or an UPDATE of the whole row)
Put(f, k, v) == [x \in DOMAIN f \cup {k} |-> IF x = k THEN v ELSE f[x]]
\* a function without the keys ks (a DELETE)
Drop(f, ks) == [x \in DOMAIN f \ ks |-> f[x]]

----------------------------------------------------------------------------
(* services.py: validate_and_fetch_artwork *)

\* the dict built from a 200 response
FetchResult(a) ==
    LET data == CatalogRecord(a)
    IN  [id |-> DictGet(data, "id", 0), title |-> DictGet(data, "title", UnknownTitle)]

\* mutant: every status but 404 is taken for a success
LookupData_FailOpen(c, a, o) ==
    IF a \in DOMAIN c THEN {c[a].value}
    ELSE IF o \in {"200", "500"} THEN {FetchResult(a)}
    ELSE {}

\* what the function returns with cache c when the catalog answers o: {} is None
LookupData(c, a, o) ==
    IF a \in DOMAIN c THEN {c[a].value}
    ELSE IF o = "200" THEN {FetchResult(a)}
    ELSE {}

\* cache.set(cache_key, result, timeout=86400): the entry, just set
CacheEntry(result) == [value |-> result, old |-> FALSE]

\* mutant: a not-found answer is cached as well
LookupCache_AnyAnswer(c, a, o) ==
    IF a \notin DOMAIN c /\ o \in {"200", "404"}
    THEN Put(c, a, [value |-> FetchResult(a), old |-> FALSE]) ELSE c

\* the cache after the call
LookupCache(c, a, o) ==
    IF a \notin DOMAIN c /\ o = "200" THEN Put(c, a, CacheEntry(FetchResult(a))) ELSE c

\* mutant: the cache is not consulted
LookupHttp_AlwaysFetch(c, a, o) == o

\* the answer of the external request the call issued ("none": served from the cache)
LookupHttp(c, a, o) == IF a \in DOMAIN c THEN "none" ELSE o

----------------------------------------------------------------------------
Init ==
    /\ projects = << >>
    /\ places = << >>
    /\ nextProject = 1
    /\ nextPlace = 1
    /\ cache = << >>
    /\ pc = [w \in Workers |-> "idle"]
    /\ req = [w \in Workers |-> IdleReq]
    /\ last = [w \in Workers |-> NoResponse]
    /\ nreq = 0

\* the handler returns (or raises): the worker is free again
Respond(w, op, kind) ==
    /\ pc' = [pc EXCEPT ![w] = "idle"]
    /\ req' = [req EXCEPT ![w] = IdleReq]
    /\ last' = [last EXCEPT ![w] = [op |-> op, kind |-> kind]]

\* the handler goes on to step l with local variables r
Goto(w, l, r) ==
    /\ pc' = [pc EXCEPT ![w] = l]
    /\ req' = [req EXCEPT ![w] = r]
    /\ UNCHANGED last

\* the INSERT of a place row violates a constraint of the table (IntegrityError)
InsertFails(p, a, k) ==
    \/ p \notin DOMAIN projects
    \/ k \in DOMAIN places
    \/ \E j \in PlacesOf(p) : places[j].artwork_id = a

----------------------------------------------------------------------------
(* views.py: PlaceViewSet.create (add place) *)

\* project = self.get_project()
AddGetProject(w, budget, p, a) ==
    /\ pc[w] = "idle"
    /\ nreq < budget
    /\ nreq' = nreq + 1
    /\ IF p \notin DOMAIN projects
       THEN Respond(w, "add_place", "NotFound")
       ELSE Goto(w, "add_count", [IdleReq EXCEPT !.op = "add_place", !.proj = p, !.art = a])
    /\ UNCHANGED <<projects, places, nextProject, nextPlace, cache>>

\* mutant: the limit check is > instead of >=
AddCount_OffByOne(w) ==
    /\ pc[w] = "add_count"
    /\ IF Cardinality(PlacesOf(req[w].proj)) > PLACE_LIMIT
       THEN Respond(w, "add_place", "LimitExceeded")
       ELSE IF req[w].art = NoArtwork
       THEN Respond(w, "add_place", "MissingField")
       ELSE Goto(w, "add_dup", req[w])
    /\ UNCHANGED <<projects, places, nextProject, nextPlace, cache, nreq>>

\* mutant: artwork_id is None is checked before the count
AddCount_MissingFirst(w) ==
    /\ pc[w] = "add_count"
    /\ IF req[w].art = NoArtwork
       THEN Respond(w, "add_place", "MissingField")
       ELSE IF Cardinality(PlacesOf(req[w].proj)) >= PLACE_LIMIT
       THEN Respond(w, "add_place", "LimitExceeded")
       ELSE Goto(w, "add_dup", req[w])
    /\ UNCHANGED <<projects, places, nextProject, nextPlace, cache, nreq>>

\* project.places.count() >= 10, then artwork_id is None
AddCount(w) ==
    /\ pc[w] = "add_count"
    /\ IF Cardinality(PlacesOf(req[w].proj)) >= PLACE_LIMIT
       THEN Respond(w, "add_place", "LimitExceeded")
       ELSE IF req[w].art = NoArtwork
       THEN Respond(w, "add_place", "MissingField")
       ELSE Goto(w, "add_dup", req[w])
    /\ UNCHANGED <<projects, places, nextProject, nextPlace, cache, nreq>>

\* mutant: the duplicate check is left to the table's unique constraint
AddDup_Unchecked(w) ==
    /\ pc[w] = "add_dup"
    /\ Goto(w, "add_lookup", req[w])
    /\ UNCHANGED <<projects, places, nextProject, nextPlace, cache, nreq>>

\* project.places.filter(artwork_id=artwork_id).exists()
AddDup(w) ==
    /\ pc[w] = "add_dup"
    /\ IF \E k \in PlacesOf(req[w].proj) : places[k].artwork_id = req[w].art
       THEN Respond(w, "add_place", "DuplicateArtwork")
       ELSE Goto(w, "add_lookup", req[w])
    /\ UNCHANGED <<projects, places, nextProject, nextPlace, cache, nreq>>

\* artwork_data = validate_and_fetch_artwork(artwork_id)
AddLookup(w, o) ==
    /\ pc[w] = "add_lookup"
    /\ Goto(w, "add_insert",
            [req[w] EXCEPT !.data = LookupData(cache, req[w].art, o),
                           !.http = LookupHttp(cache, req[w].art, o)])
    /\ cache' = LookupCache(cache, req[w].art, o)
    /\ UNCHANGED <<projects, places, nextProject, nextPlace, nreq>>

\* the row Place.objects.create(...) inserts
AddedPlace(p, a, data) ==
    [project |-> p, artwork_id |-> a, title |-> data.title,
     image_id |-> DictGet(data, "image_id", NoImage), notes |-> "", visited |-> FALSE]

\* if not artwork_data: 400; else Place.objects.create(...)
AddInsert(w) ==
    /\ pc[w] = "add_insert"
    /\ IF req[w].data = {}
       THEN /\ Respond(w, "add_place", "InvalidArtwork")
            /\ UNCHANGED <<places, nextPlace>>
       ELSE IF InsertFails(req[w].proj, req[w].art, nextPlace)
       THEN /\ Respond(w, "add_place", "ServerError")
            /\ UNCHANGED <<places, nextPlace>>
       ELSE /\ places' = Put(places, nextPlace,
                             AddedPlace(req[w].proj, req[w].art, CHOOSE d \in req[w].data : TRUE))
            /\ nextPlace' = nextPlace + 1
            /\ Respond(w, "add_place", "Created")
    /\ UNCHANGED <<projects, nextProject, cache, nreq>>

----------------------------------------------------------------------------
(* views.py: PlaceViewSet.perform_update (update place), behind DRF's
   UpdateModelMixin: get_object(), then serializer.save() *)

\* mutant: the queryset is not filtered by the project of the URL
UpdGetObject_Unscoped(w, budget, p, k, pl) ==
    /\ pc[w] = "idle"
    /\ nreq < budget
    /\ nreq' = nreq + 1
    /\ IF p \notin DOMAIN projects \/ k \notin DOMAIN places
       THEN Respond(w, "update_place", "NotFound")
       ELSE Goto(w, "upd_save",
                 [IdleReq EXCEPT !.op = "update_place", !.proj = p, !.pk = k, !.payload = pl,
                                 !.pinst = {places[k]}])
    /\ UNCHANGED <<projects, places, nextProject, nextPlace, cache>>

\* self.get_object(): the place pk among Place.objects.filter(project=project)
UpdGetObject(w, budget, p, k, pl) ==
    /\ pc[w] = "idle"
    /\ nreq < budget
    /\ nreq' = nreq + 1
    /\ IF p \notin DOMAIN projects \/ k \notin PlacesOf(p)
       THEN Respond(w, "update_place", "NotFound")
       ELSE Goto(w, "upd_save",
                 [IdleReq EXCEPT !.op = "update_place", !.proj = p, !.pk = k, !.payload = pl,
                                 !.pinst = {places[k]}])
    /\ UNCHANGED <<projects, places, nextProject, nextPlace, cache>>

\* mutant: every field of the place is writable
UpdatedPlace_Writable(row, pl) ==
    [row EXCEPT !.visited = IF "visited" \in pl.has THEN pl.visited ELSE @,
                !.notes = IF "notes" \in pl.has THEN pl.notes ELSE @,
                !.artwork_id = IF "artwork_id" \in pl.has THEN pl.artwork_id ELSE @,
                !.title = IF "title" \in pl.has THEN pl.title ELSE @,
                !.image_id = IF "image_id" \in pl.has THEN pl.image_id ELSE @]

\* the place instance with the payload's writable fields applied: of the fields
\* of PlaceUpdateSerializer, id, artwork_id, title and image_id are read-only
UpdatedPlace(row, pl) ==
    [row EXCEPT !.visited = IF "visited" \in pl.has THEN pl.visited ELSE @,
                !.notes = IF "notes" \in pl.has THEN pl.notes ELSE @]

\* place = serializer.save(): UPDATE of every column by pk, INSERT when no row matched
UpdSave(w) ==
    /\ pc[w] = "upd_save"
    /\ LET row == UpdatedPlace(CHOOSE r \in req[w].pinst : TRUE, req[w].payload)
       IN  IF req[w].pk \notin DOMAIN places
              /\ InsertFails(row.project, row.artwork_id, req[w].pk)
           THEN /\ Respond(w, "update_place", "ServerError")
                /\ UNCHANGED places
           ELSE /\ places' = Put(places, req[w].pk, row)
                /\ Goto(w, "upd_project", [req[w] EXCEPT !.pinst = {}])
    /\ UNCHANGED <<projects, nextProject, nextPlace, cache, nreq>>

\* project = place.project: the lazy SELECT of the related row
UpdProject(w) ==
    /\ pc[w] = "upd_project"
    /\ IF req[w].proj \notin DOMAIN projects
       THEN Respond(w, "update_place", "ServerError")
       ELSE Goto(w, "upd_exists", [req[w] EXCEPT !.inst = {projects[req[w].proj]}])
    /\ UNCHANGED <<projects, places, nextProject, nextPlace, cache, nreq>>

\* all_places.exists(); False short-circuits the and
UpdExists(w) ==
    /\ pc[w] = "upd_exists"
    /\ IF PlacesOf(req[w].proj) # {}
       THEN Goto(w, "upd_all", req[w])
       ELSE Goto(w, "upd_write", [req[w] EXCEPT !.flag = FALSE])
    /\ UNCHANGED <<projects, places, nextProject, nextPlace, cache, nreq>>

\* mutant: any() instead of all()
AllVisited_Any(p) == \E k \in PlacesOf(p) : places[k].visited

\* all(p.visited for p in all_places): the query that fetches the rows
AllVisited(p) == \A k \in PlacesOf(p) : places[k].visited

UpdAll(w) ==
    /\ pc[w] = "upd_all"
    /\ Goto(w, "upd_write", [req[w] EXCEPT !.flag = AllVisited(req[w].proj)])
    /\ UNCHANGED <<projects, places, nextProject, nextPlace, cache, nreq>>

\* the project instance with is_completed assigned
FlaggedProject(row, f) == [row EXCEPT !.is_completed = f]

\* project.save(): UPDATE of every column by pk, INSERT when no row matched
UpdWrite(w) ==
    /\ pc[w] = "upd_write"
    /\ projects' = Put(projects, req[w].proj,
                       FlaggedProject(CHOOSE r \in req[w].inst : TRUE, req[w].flag))
    /\ Respond(w, "update_place", "OK")
    /\ UNCHANGED <<places, nextProject, nextPlace, cache, nreq>>

----------------------------------------------------------------------------
(* views.py: PlaceViewSet.destroy (delete place) *)

\* place = self.get_object()
DelGetObject(w, budget, p, k) ==
    /\ pc[w] = "idle"
    /\ nreq < budget
    /\ nreq' = nreq + 1
    /\ IF p \notin DOMAIN projects \/ k \notin PlacesOf(p)
       THEN Respond(w, "delete_place", "NotFound")
       ELSE Goto(w, "del_project", [IdleReq EXCEPT !.op = "delete_place", !.proj = p, !.pk = k])
    /\ UNCHANGED <<projects, places, nextProject, nextPlace, cache>>

\* project = place.project
DelProject(w) ==
    /\ pc[w] = "del_project"
    /\ IF req[w].proj \notin DOMAIN projects
       THEN Respond(w, "delete_place", "ServerError")
       ELSE Goto(w, "del_delete", [req[w] EXCEPT !.inst = {projects[req[w].proj]}])
    /\ UNCHANGED <<projects, places, nextProject, nextPlace, cache, nreq>>

\* place.delete(): DELETE by pk
DelDelete(w) ==
    /\ pc[w] = "del_delete"
    /\ places' = Drop(places, {req[w].pk})
    /\ Goto(w, "del_exists", req[w])
    /\ UNCHANGED <<projects, nextProject, nextPlace, cache, nreq>>

\* mutant: the exists() guard is missing, and all() of no rows is True
DelExists_Skipped(w) ==
    /\ pc[w] = "del_exists"
    /\ Goto(w, "del_all", req[w])
    /\ UNCHANGED <<projects, places, nextProject, nextPlace, cache, nreq>>

\* all_places.exists()
DelExists(w) ==
    /\ pc[w] = "del_exists"
    /\ IF PlacesOf(req[w].proj) # {}
       THEN Goto(w, "del_all", req[w])
       ELSE Goto(w, "del_write", [req[w] EXCEPT !.flag = FALSE])
    /\ UNCHANGED <<projects, places, nextProject, nextPlace, cache, nreq>>

\* all(p.visited for p in all_places)
DelAll(w) ==
    /\ pc[w] = "del_all"
    /\ Goto(w, "del_write", [req[w] EXCEPT !.flag = AllVisited(req[w].proj)])
    /\ UNCHANGED <<projects, places, nextProject, nextPlace, cache, nreq>>

\* project.save()
DelWrite(w) ==
    /\ pc[w] = "del_write"
    /\ projects' = Put(projects, req[w].proj,
                       FlaggedProject(CHOOSE r \in req[w].inst : TRUE, req[w].flag))
    /\ Respond(w, "delete_place", "NoContent")
    /\ UNCHANGED <<places, nextProject, nextPlace, cache, nreq>>

----------------------------------------------------------------------------
(* views.py: PlaceViewSet.get_queryset (list places), behind DRF's list *)

\* project = self.get_project()
ListGetProject(w, budget, p) ==
    /\ pc[w] = "idle"
    /\ nreq < budget
    /\ nreq' = nreq + 1
    /\ IF p \notin DOMAIN projects
       THEN Respond(w, "list_places", "NotFound")
       ELSE Goto(w, "list_query", [IdleReq EXCEPT !.op = "list_places", !.proj = p])
    /\ UNCHANGED <<projects, places, nextProject, nextPlace, cache>>

\* Place.objects.filter(project=project), evaluated when the page is serialized
ListQuery(w) ==
    /\ pc[w] = "list_query"
    /\ Goto(w, "list_respond",
            [req[w] EXCEPT !.pinst = { places[k] : k \in PlacesOf(req[w].proj) }])
    /\ UNCHANGED <<projects, places, nextProject, nextPlace, cache, nreq>>

\* Response(serializer.data)
ListRespond(w) ==
    /\ pc[w] = "list_respond"
    /\ Respond(w, "list_places", "OK")
    /\ UNCHANGED <<projects, places, nextProject, nextPlace, cache, nreq>>

----------------------------------------------------------------------------
(* views.py: ProjectViewSet.destroy (delete project) *)

\* project = self.get_object()
PDelGetObject(w, budget, p) ==
    /\ pc[w] = "idle"
    /\ nreq < budget
    /\ nreq' = nreq + 1
    /\ IF p \notin DOMAIN projects
       THEN Respond(w, "delete_project", "NotFound")
       ELSE Goto(w, "pdel_check", [IdleReq EXCEPT !.op = "delete_project", !.proj = p])
    /\ UNCHANGED <<projects, places, nextProject, nextPlace, cache>>

\* mutant: the check reads the project's is_completed instead of its places
PDelCheck_Completed(w) ==
    /\ pc[w] = "pdel_check"
    /\ IF projects[req[w].proj].is_completed
       THEN Respond(w, "delete_project", "Conflict")
       ELSE Goto(w, "pdel_delete", req[w])
    /\ UNCHANGED <<projects, places, nextProject, nextPlace, cache, nreq>>

\* project.places.filter(visited=True).exists()
PDelCheck(w) ==
    /\ pc[w] = "pdel_check"
    /\ IF \E k \in PlacesOf(req[w].proj) : places[k].visited
       THEN Respond(w, "delete_project", "Conflict")
       ELSE Goto(w, "pdel_delete", req[w])
    /\ UNCHANGED <<projects, places, nextProject, nextPlace, cache, nreq>>

\* super().destroy(): get_object() again, then instance.delete() with its cascade
\* (on_delete=CASCADE, models.py:13), which Django's Collector runs in one transaction
PDelDelete(w) ==
    /\ pc[w] = "pdel_delete"
    /\ IF req[w].proj \notin DOMAIN projects
       THEN /\ Respond(w, "delete_project", "NotFound")
            /\ UNCHANGED <<projects, places>>
       ELSE /\ places' = Drop(places, PlacesOf(req[w].proj))
            /\ projects' = Drop(projects, {req[w].proj})
            /\ Respond(w, "delete_project", "NoContent")
    /\ UNCHANGED <<nextProject, nextPlace, cache, nreq>>

----------------------------------------------------------------------------
(* views.py: ProjectViewSet (update project), DRF's partial_update over
   ProjectSerializer: get_object, then serializer.save() *)

\* instance = self.get_object()
PUpdGetObject(w, budget, p, pl) ==
    /\ pc[w] = "idle"
    /\ nreq < budget
    /\ nreq' = nreq + 1
    /\ IF p \notin DOMAIN projects
       THEN Respond(w, "update_project", "NotFound")
       ELSE Goto(w, "pupd_save",
                 [IdleReq EXCEPT !.op = "update_project", !.proj = p, !.payload = pl,
                                 !.inst = {projects[p]}])
    /\ UNCHANGED <<projects, places, nextProject, nextPlace, cache>>

\* mutant: is_completed is writable
UpdatedProject_Writable(row, pl) ==
    [row EXCEPT !.name = IF "name" \in pl.has THEN pl.name ELSE @,
                !.is_completed = IF "is_completed" \in pl.has THEN pl.is_completed ELSE @]

\* the project instance with the payload's writable fields applied: is_completed
\* is read-only in ProjectSerializer
UpdatedProject(row, pl) ==
    [row EXCEPT !.name = IF "name" \in pl.has THEN pl.name ELSE @]

\* serializer.save(): instance.save() writes every column of the instance
PUpdSave(w) ==
    /\ pc[w] = "pupd_save"
    /\ projects' = Put(projects, req[w].proj,
                       UpdatedProject(CHOOSE r \in req[w].inst : TRUE, req[w].payload))
    /\ Respond(w, "update_project", "OK")
    /\ UNCHANGED <<places, nextProject, nextPlace, cache, nreq>>

----------------------------------------------------------------------------
(* serializers.py: ProjectSerializer (create project), behind DRF's
   CreateModelMixin: serializer.is_valid(), then serializer.save() *)

\* PlaceSerializer.validate_artwork_id over the entries of the list, in order:
\* the cache after the lookups
RECURSIVE EntriesCache(_, _, _)
EntriesCache(c, es, o) ==
    IF es = << >> THEN c
    ELSE EntriesCache(LookupCache(c, Head(es).artwork_id, o), Tail(es), o)

\* mutant: an entry whose lookup fails is accepted
EntriesValid_Permissive(c, es, o) == TRUE

\* ... and whether every entry's lookup returned data
RECURSIVE EntriesValid(_, _, _)
EntriesValid(c, es, o) ==
    IF es = << >> THEN TRUE
    ELSE /\ LookupData(c, Head(es).artwork_id, o) # {}
         /\ EntriesValid(LookupCache(c, Head(es).artwork_id, o), Tail(es), o)

\* mutant: validate_places accepts every list
ValidatePlaces_Unchecked(es) == "ok"

\* ProjectSerializer.validate_places: "ok" or the rejection
ValidatePlaces(es) ==
    IF es # << >> /\ Len(es) > INLINE_LIMIT THEN "LimitExceeded"
    ELSE IF Len(es) # Cardinality({ es[i].artwork_id : i \in DOMAIN es }) THEN "DuplicateArtwork"
    ELSE "ok"

\* serializer.is_valid(raise_exception=True)
CrtValidate(w, budget, cap, pl, es, o) ==
    /\ pc[w] = "idle"
    /\ nreq < budget
    /\ nextProject + Cardinality({ x \in Workers : pc[x] = "crt_create" }) <= cap
    /\ nreq' = nreq + 1
    /\ cache' = EntriesCache(cache, es, o)
    /\ IF "name" \notin pl.has
       THEN Respond(w, "create_project", "InvalidInput")
       ELSE IF ~EntriesValid(cache, es, o)
       THEN Respond(w, "create_project", "InvalidArtwork")
       ELSE IF ValidatePlaces(es) # "ok"
       THEN Respond(w, "create_project", ValidatePlaces(es))
       ELSE Goto(w, "crt_create",
                 [IdleReq EXCEPT !.op = "create_project", !.payload = pl, !.entries = es])
    /\ UNCHANGED <<projects, places, nextProject, nextPlace>>

\* the row one pass of the loop of ProjectSerializer.create inserts
InlinePlace(p, e, data) ==
    [project |-> p, artwork_id |-> e.artwork_id,
     title |-> IF data # {} THEN (CHOOSE d \in data : TRUE).title ELSE UnknownTitle,
     image_id |-> IF data # {} THEN DictGet(CHOOSE d \in data : TRUE, "image_id", NoImage)
                  ELSE NoImage,
     notes |-> "", visited |-> e.visited]

\* the loop over places_data: the place table after it
RECURSIVE InlinePlaces(_, _, _, _, _, _)
InlinePlaces(tbl, k, p, c, es, o) ==
    IF es = << >> THEN tbl
    ELSE InlinePlaces(Put(tbl, k, InlinePlace(p, Head(es), LookupData(c, Head(es).artwork_id, o))),
                      k + 1, p, LookupCache(c, Head(es).artwork_id, o), Tail(es), o)

\* the row Project.objects.create(**validated_data) inserts: is_completed is
\* read-only in ProjectSerializer and takes the column's default (models.py:7)
NewProject(pl) == [name |-> pl.name, is_completed |-> FALSE]

\* ProjectSerializer.create
CrtCreate(w, o) ==
    /\ pc[w] = "crt_create"
    /\ projects' = Put(projects, nextProject, NewProject(req[w].payload))
    /\ nextProject' = nextProject + 1
    /\ places' = InlinePlaces(places, nextPlace, nextProject, cache, req[w].entries, o)
    /\ nextPlace' = nextPlace + Len(req[w].entries)
    /\ cache' = EntriesCache(cache, req[w].entries, o)
    /\ Respond(w, "create_project", "Created")
    /\ UNCHANGED nreq

----------------------------------------------------------------------------
(* The cache backend: entries set with timeout=86400 expire a day later *)

\* most of a day passes between two requests: the entries of the cache are old
TimePasses ==
    /\ \A w \in Workers : pc[w] = "idle"
    /\ \E a \in DOMAIN cache : ~cache[a].old
    /\ cache' = [a \in DOMAIN cache |-> [cache[a] EXCEPT !.old = TRUE]]
    /\ UNCHANGED <<projects, places, nextProject, nextPlace, pc, req, last, nreq>>

\* the old entries reach their timeout, at any moment of a request
CacheExpire ==
    /\ \E a \in DOMAIN cache : cache[a].old
    /\ cache' = Drop(cache, {a \in DOMAIN cache : cache[a].old})
    /\ UNCHANGED <<projects, places, nextProject, nextPlace, pc, req, last, nreq>>

----------------------------------------------------------------------------
(* The requests a worker receives, and the steps of the one it serves *)

Receive(w, budget) ==
    \/ \E pl \in NamePayloads, es \in InlineLists, o \in ApiOutcomes :
          CrtValidate(w, budget, MaxProjects, pl, es, o)
    \/ \E p \in ProjectIds : PDelGetObject(w, budget, p)
    \/ \E p \in ProjectIds, a \in AddArtworks : AddGetProject(w, budget, p, a)
    \/ \E p \in ProjectIds, k \in TargetPks, pl \in VisitedPayloads :
          UpdGetObject(w, budget, p, k, pl)
    \/ \E p \in ProjectIds, k \in TargetPks : DelGetObject(w, budget, p, k)

Serve(w) ==
    \/ \E o \in ApiOutcomes : CrtCreate(w, o)
    \/ PDelCheck(w) \/ PDelDelete(w)
    \/ AddCount(w) \/ AddDup(w) \/ (\E o \in ApiOutcomes : AddLookup(w, o)) \/ AddInsert(w)
    \/ UpdSave(w) \/ UpdProject(w) \/ UpdExists(w) \/ UpdAll(w) \/ UpdWrite(w)
    \/ DelProject(w) \/ DelDelete(w) \/ DelExists(w) \/ DelAll(w) \/ DelWrite(w)

\* place updates and deletes on projects created with unvisited places
UnvisitedLists == { es \in InlineLists : \A i \in DOMAIN es : ~es[i].visited }

ReceivePlaceChange(w, budget) ==
    \/ \E pl \in NamePayloads, es \in UnvisitedLists, o \in ApiOutcomes :
          CrtValidate(w, budget, MaxProjects, pl, es, o)
    \/ \E p \in ProjectIds, k \in TargetPks, pl \in VisitedPayloads :
          UpdGetObject(w, budget, p, k, pl)
    \/ \E p \in ProjectIds, k \in TargetPks : DelGetObject(w, budget, p, k)

ReceivePlaceChangeOrAdd(w, budget) ==
    \/ \E pl \in NamePayloads, es \in UnvisitedLists, o \in ApiOutcomes :
          CrtValidate(w, budget, MaxProjects, pl, es, o)
    \/ \E p \in ProjectIds : PDelGetObject(w, budget, p)
    \/ \E p \in ProjectIds, a \in AddArtworks : AddGetProject(w, budget, p, a)
    \/ \E p \in ProjectIds, k \in TargetPks, pl \in VisitedPayloads :
          UpdGetObject(w, budget, p, k, pl)
    \/ \E p \in ProjectIds, k \in TargetPks : DelGetObject(w, budget, p, k)

ServePlaceChange(w) ==
    \/ \E o \in ApiOutcomes : CrtCreate(w, o)
    \/ UpdSave(w) \/ UpdProject(w) \/ UpdExists(w) \/ UpdAll(w) \/ UpdWrite(w)
    \/ DelProject(w) \/ DelDelete(w) \/ DelExists(w) \/ DelAll(w) \/ DelWrite(w)

\* requests arrive one after the other: a single worker serves them
NextSeq == Receive("w1", MaxSeqRequests) \/ Serve("w1")

SpecSeq == Init /\ [][NextSeq]_vars

\* ... carrying only the fields the API documents: inline entries are {artwork_id}
NextSeqDocumented == ReceivePlaceChangeOrAdd("w1", MaxSeqRequests) \/ Serve("w1")

SpecSeqDocumented == Init /\ [][NextSeqDocumented]_vars

\* requests are served by two workers whose steps interleave
Next == \E w \in Workers : Receive(w, MaxConcRequests) \/ Serve(w)

Spec == Init /\ [][Next]_vars

\* two workers serve interleaved place updates and deletes
NextPlaceChange ==
    \E w \in Workers : ReceivePlaceChange(w, MaxConcRequests) \/ ServePlaceChange(w)

SpecPlaceChange == Init /\ [][NextPlaceChange]_vars

\* one worker serves creations and additions while cache entries age and expire
ReceiveLookup(w, budget) ==
    \/ \E pl \in NamePayloads, es \in InlineLists, o \in ApiOutcomes :
          CrtValidate(w, budget, MaxProjects, pl, es, o)
    \/ \E p \in ProjectIds, a \in AddArtworks : AddGetProject(w, budget, p, a)

ServeLookup(w) ==
    \/ \E o \in ApiOutcomes : CrtCreate(w, o)
    \/ AddCount(w) \/ AddDup(w) \/ (\E o \in ApiOutcomes : AddLookup(w, o)) \/ AddInsert(w)

NextLookup ==
    \/ ReceiveLookup("w1", MaxSeqRequests) \/ ServeLookup("w1")
    \/ TimePasses \/ CacheExpire

SpecLookup == Init /\ [][NextLookup]_vars

\* one worker serves creations and updates of projects and places whose
\* payloads carry every field, the read-only ones included
ReceivePayloads(w, budget) ==
    \/ \E pl \in ProjectPayloads, es \in UnvisitedLists, o \in ApiOutcomes :
          CrtValidate(w, budget, MaxProjects, pl, es, o)
    \/ \E p \in ProjectIds, pl \in ProjectPayloads : PUpdGetObject(w, budget, p, pl)
    \/ \E p \in ProjectIds, k \in TargetPks, pl \in UpdatePayloads :
          UpdGetObject(w, budget, p, k, pl)

ServePayloads(w) ==
    \/ \E o \in ApiOutcomes : CrtCreate(w, o)
    \/ PUpdSave(w)
    \/ UpdSave(w) \/ UpdProject(w) \/ UpdExists(w) \/ UpdAll(w) \/ UpdWrite(w)

NextPayloads == ReceivePayloads("w1", MaxSeqRequests) \/ ServePayloads("w1")

SpecPayloads == Init /\ [][NextPayloads]_vars

\* one worker serves place requests addressed to one of several projects
ReceiveSeveral(w, budget) ==
    \/ \E pl \in NamePayloads, es \in UnvisitedLists, o \in ApiOutcomes :
          CrtValidate(w, budget, MaxProjects + 1, pl, es, o)
    \/ \E p \in SeveralProjectIds, a \in AddArtworks : AddGetProject(w, budget, p, a)
    \/ \E p \in SeveralProjectIds, k \in TargetPks, pl \in VisitedPayloads :
          UpdGetObject(w, budget, p, k, pl)
    \/ \E p \in SeveralProjectIds, k \in TargetPks : DelGetObject(w, budget, p, k)
    \/ \E p \in SeveralProjectIds : ListGetProject(w, budget, p)

ServeSeveral(w) ==
    \/ \E o \in ApiOutcomes : CrtCreate(w, o)
    \/ AddCount(w) \/ AddDup(w) \/ (\E o \in ApiOutcomes : AddLookup(w, o)) \/ AddInsert(w)
    \/ UpdSave(w) \/ UpdProject(w) \/ UpdExists(w) \/ UpdAll(w) \/ UpdWrite(w)
    \/ DelProject(w) \/ DelDelete(w) \/ DelExists(w) \/ DelAll(w) \/ DelWrite(w)
    \/ ListQuery(w) \/ ListRespond(w)

NextSeveral == ReceiveSeveral("w1", MaxSeqRequests) \/ ServeSeveral("w1")

SpecSeveral == Init /\ [][NextSeveral]_vars

\* two workers serve interleaved place changes and project updates
ReceiveProjectChange(w, budget) ==
    \/ \E pl \in NamePayloads, es \in UnvisitedLists, o \in ApiOutcomes :
          CrtValidate(w, budget, MaxProjects, pl, es, o)
    \/ \E p \in ProjectIds, pl \in ProjectPayloads : PUpdGetObject(w, budget, p, pl)
    \/ \E p \in ProjectIds, k \in TargetPks, pl \in VisitedPayloads :
          UpdGetObject(w, budget, p, k, pl)
    \/ \E p \in ProjectIds, k \in TargetPks : DelGetObject(w, budget, p, k)

ServeProjectChange(w) ==
    \/ \E o \in ApiOutcomes : CrtCreate(w, o)
    \/ PUpdSave(w)
    \/ UpdSave(w) \/ UpdProject(w) \/ UpdExists(w) \/ UpdAll(w) \/ UpdWrite(w)
    \/ DelProject(w) \/ DelDelete(w) \/ DelExists(w) \/ DelAll(w) \/ DelWrite(w)

NextProjectChange ==
    \E w \in Workers : ReceiveProjectChange(w, MaxConcRequests) \/ ServeProjectChange(w)

SpecProjectChange == Init /\ [][NextProjectChange]_vars

----------------------------------------------------------------------------
(* The properties *)

\* the Completion Evaluator over the current places of project p
Evaluate(p) == PlacesOf(p) # {} /\ \A k \in PlacesOf(p) : places[k].visited = TRUE

AllIdle == \A w \in Workers : pc[w] = "idle"

\* worker w takes a step from l
Steps(w, l) == pc[w] = l /\ pc'[w] # l

\* worker w answers the request with kind
Answers(w, op, kind) == pc'[w] = "idle" /\ last'[w] = [op |-> op, kind |-> kind]

\* C1: whenever no request is being served, a project is completed iff it has a
\* place and all its places are visited
C1_CompletedIffAllVisited ==
    AllIdle => \A p \in DOMAIN projects : projects[p].is_completed <=> Evaluate(p)

\* C2: no project ever holds more than 10 places, and an add place that finds 10
\* places is answered LimitExceeded and leaves the places as they are
C2_AtMostTen ==
    /\ [](\A p \in ProjectIds : Cardinality(PlacesOf(p)) <= 10)
    /\ [][\A w \in Workers :
            Steps(w, "add_count") /\ Cardinality(PlacesOf(req[w].proj)) = 10
            => Answers(w, "add_place", "LimitExceeded") /\ places' = places]_vars

C2_Witness ==
    /\ pc["w1"] = "idle"
    /\ last["w1"] = [op |-> "add_place", kind |-> "LimitExceeded"]
    /\ \E p \in DOMAIN projects : Cardinality(PlacesOf(p)) = 10

\* project p holds a place with artwork a
Holds(p, a) == \E k \in PlacesOf(p) : places[k].artwork_id = a

\* the artwork ids of the places of every project are pairwise distinct
DistinctArtworks ==
    \A j \in DOMAIN places : \A k \in DOMAIN places :
        (places[j].project = places[k].project /\ places[j].artwork_id = places[k].artwork_id)
        => j = k

\* worker w answers the add place request it serves
AddAnswers(w) == pc[w] \in {"add_count", "add_dup", "add_lookup", "add_insert"} /\ pc'[w] = "idle"

\* C3 as stated: the artwork ids of a project are pairwise distinct, and an add
\* place with an artwork the project holds is answered DuplicateArtwork and leaves
\* the places as they are
C3_DuplicateRejected ==
    /\ []DistinctArtworks
    /\ [][\A w \in Workers :
            AddAnswers(w) /\ Holds(req[w].proj, req[w].art)
            => Answers(w, "add_place", "DuplicateArtwork") /\ places' = places]_vars

\* C3 as amended: ... is rejected and leaves the places as they are; the answer is
\* DuplicateArtwork when the project holds fewer than 10 places, LimitExceeded
\* when it holds 10
C3_DuplicateRejectedBelowLimit ==
    /\ []DistinctArtworks
    /\ [][\A w \in Workers :
            AddAnswers(w) /\ Holds(req[w].proj, req[w].art)
            => /\ places' = places
               /\ IF Cardinality(PlacesOf(req[w].proj)) < 10
                  THEN Answers(w, "add_place", "DuplicateArtwork")
                  ELSE Answers(w, "add_place", "LimitExceeded")]_vars

C3_Witness ==
    /\ pc["w1"] = "idle"
    /\ last["w1"] = [op |-> "add_place", kind |-> "DuplicateArtwork"]
    /\ \E p \in DOMAIN projects : Holds(p, 1) /\ Cardinality(PlacesOf(p)) < 10

\* C4: however the steps of the workers interleave, no project holds more than 10
\* places nor two places with the same artwork
C4_NoRace ==
    /\ \A p \in ProjectIds : Cardinality(PlacesOf(p)) <= 10
    /\ DistinctArtworks

\* C5: once the interleaved place updates and deletes have all finished, every
\* project's is_completed is the evaluator's result on its places
C5_NoStaleFlag ==
    AllIdle => \A p \in DOMAIN projects : projects[p].is_completed = Evaluate(p)

\* C6: when an update place completes, the owning project's is_completed is the
\* evaluator's result on the project's places
C6_UpdateRecomputes ==
    [][\A w \in Workers :
        \A p \in ProjectIds :
            Steps(w, "upd_write") /\ Answers(w, "update_place", "OK") /\ req[w].proj = p
            => p \in DOMAIN projects' /\ projects'[p].is_completed = Evaluate(p)']_vars

C6_Witness ==
    /\ pc["w1"] = "idle"
    /\ last["w1"] = [op |-> "update_place", kind |-> "OK"]
    /\ \E p \in DOMAIN projects :
          /\ Cardinality(PlacesOf(p)) = 2
          /\ \A k \in PlacesOf(p) : places[k].visited
          /\ projects[p].is_completed

\* C7: when a delete place completes, the place is gone and the owning project's
\* is_completed is the evaluator's result on the remaining places
C7_DeleteRecomputes ==
    [][\A w \in Workers :
        \A p \in ProjectIds :
            Steps(w, "del_write") /\ Answers(w, "delete_place", "NoContent") /\ req[w].proj = p
            => /\ req[w].pk \notin DOMAIN places'
               /\ p \in DOMAIN projects' /\ projects'[p].is_completed = Evaluate(p)']_vars

C7_Witness ==
    /\ pc["w1"] = "idle"
    /\ last["w1"] = [op |-> "delete_place", kind |-> "NoContent"]
    /\ \E p \in DOMAIN projects : PlacesOf(p) = {} /\ ~projects[p].is_completed

\* C8: a delete project that finds a visited place is answered Conflict and changes
\* nothing; one that finds none removes the project and all its places
C8_DeleteProject ==
    [][\A w \in Workers :
        /\ Steps(w, "pdel_check") =>
              /\ UNCHANGED <<projects, places>>
              /\ IF \E k \in PlacesOf(req[w].proj) : places[k].visited = TRUE
                 THEN Answers(w, "delete_project", "Conflict")
                 ELSE pc'[w] = "pdel_delete"
        /\ Steps(w, "pdel_delete") =>
              /\ Answers(w, "delete_project", "NoContent")
              /\ req[w].proj \notin DOMAIN projects'
              /\ \A k \in DOMAIN places' : places'[k].project # req[w].proj
              /\ \A k \in DOMAIN places :
                    places[k].project # req[w].proj
                    => k \in DOMAIN places' /\ places'[k] = places[k]]_vars

C8_Witness ==
    /\ pc["w1"] = "idle"
    /\ last["w1"] = [op |-> "delete_project", kind |-> "Conflict"]
    /\ \E p \in DOMAIN projects : \E k \in PlacesOf(p) : places[k].visited

\* C9: an add place whose lookup got no successful answer from the catalog is
\* answered InvalidArtwork and changes neither the places nor the projects
C9_FailClosed ==
    [][\A w \in Workers :
        Steps(w, "add_insert") /\ req[w].http \in {"404", "500", "timeout", "network"}
        => /\ Answers(w, "add_place", "InvalidArtwork")
           /\ UNCHANGED <<projects, places>>]_vars

C9_Witness ==
    /\ pc["w1"] = "idle"
    /\ last["w1"] = [op |-> "add_place", kind |-> "InvalidArtwork"]
    /\ \E p \in DOMAIN projects : PlacesOf(p) # {}

\* C10: every place a create project or an add place inserts is unvisited, and a
\* new project's is_completed is false and is the evaluator's result on its places
C10_CreatedUnvisited ==
    [][\A w \in Workers :
        /\ Steps(w, "crt_create") \/ Steps(w, "add_insert") =>
              \A k \in DOMAIN places' \ DOMAIN places : places'[k].visited = FALSE
        /\ \A p \in ProjectIds :
              Steps(w, "crt_create") /\ nextProject = p
              => /\ projects'[p].is_completed = FALSE
                 /\ projects'[p].is_completed = Evaluate(p)']_vars

\* C11: every persisted place carries the title and the image_id that a
\* successful lookup of its artwork_id returned
C11_PlacesValidated ==
    \A k \in DOMAIN places :
        LET data == FetchResult(places[k].artwork_id)
        IN  /\ places[k].title = data.title
            /\ places[k].image_id = DictGet(data, "image_id", NoImage)

\* C12 (as stated): create project is never rejected because the artwork of an
\* inline entry could not be validated
C12_NotAborted ==
    \A w \in Workers : last[w] # [op |-> "create_project", kind |-> "InvalidArtwork"]

\* C12 (amended): create project goes on to create the project only when the
\* lookup of every inline entry succeeded during validation, and the request it
\* rejects with InvalidArtwork creates no project and no place
C12_AbortedUnlessValidated ==
    [][\A w \in Workers :
          /\ pc[w] = "idle" /\ pc'[w] = "crt_create"
                => \A i \in DOMAIN req'[w].entries :
                       req'[w].entries[i].artwork_id \in DOMAIN cache'
          /\ pc[w] = "idle" /\ nreq' # nreq
             /\ Answers(w, "create_project", "InvalidArtwork")
                => UNCHANGED <<projects, places, nextProject, nextPlace>>]_vars

C12_Witness ==
    /\ last["w1"] = [op |-> "create_project", kind |-> "InvalidArtwork"]
    /\ projects = <<>>
    /\ places = <<>>

\* C13: create project goes on to create the project only when its places list
\* has at most 10 entries with pairwise distinct artwork_id, and the request
\* it rejects creates no project and no place
C13_InvalidListRejected ==
    [][\A w \in Workers :
          /\ pc[w] = "idle" /\ pc'[w] = "crt_create"
                => LET es == req'[w].entries
                   IN  /\ Len(es) <= INLINE_LIMIT
                       /\ \A i \in DOMAIN es : \A j \in DOMAIN es :
                              es[i].artwork_id = es[j].artwork_id => i = j
          /\ pc[w] = "idle" /\ pc'[w] = "idle" /\ nreq' # nreq
             /\ last'[w].op = "create_project"
                => UNCHANGED <<projects, places, nextProject, nextPlace>>]_vars

C13_Witness ==
    /\ last["w1"].op = "create_project"
    /\ last["w1"].kind \in {"LimitExceeded", "DuplicateArtwork"}
    /\ projects = <<>>
    /\ places = <<>>
    /\ nextProject = 1

\* C14: the save of update place changes of the place nothing but notes and
\* visited whatever the payload carries, changes no other place, and the
\* request is answered OK
C14_UpdateKeepsArtwork ==
    [][\A w \in Workers : \A k \in TargetPks :
          /\ Steps(w, "upd_save") /\ req[w].pk = k
                => /\ k \in DOMAIN places /\ DOMAIN places' = DOMAIN places
                   /\ places'[k] = [places[k] EXCEPT !.notes = places'[k].notes,
                                                     !.visited = places'[k].visited]
                   /\ \A j \in DOMAIN places : j # k => places'[j] = places[j]
          /\ pc[w] \in {"upd_save", "upd_project", "upd_exists", "upd_all", "upd_write"}
             /\ pc'[w] = "idle"
                => last'[w] = [op |-> "update_place", kind |-> "OK"]]_vars

C14_Witness ==
    /\ pc["w1"] = "upd_project"
    /\ {"artwork_id", "title", "image_id"} \subseteq req["w1"].payload.has
    /\ req["w1"].pk \in DOMAIN places
    /\ places[req["w1"].pk].artwork_id # req["w1"].payload.artwork_id
    /\ places[req["w1"].pk].notes = req["w1"].payload.notes

\* C15: a lookup of an artwork_id whose cache entry has not expired returns
\* the cached result, which is the one the successful lookup returned, issues
\* no catalog request and leaves the cache as it is
C15_CachedLookup ==
    [][\A w \in Workers : \A a \in AddArtworks :
          Steps(w, "add_lookup") /\ req[w].art = a /\ a \in DOMAIN cache
             => /\ req'[w].data = {cache[a].value}
                /\ cache[a].value = FetchResult(a)
                /\ req'[w].http = "none"
                /\ cache' = cache]_vars

C15_Witness ==
    /\ pc["w1"] = "add_insert"
    /\ req["w1"].http = "none"
    /\ req["w1"].data = {FetchResult(req["w1"].art)}
    /\ req["w1"].art \in DOMAIN cache

\* C16: create project inserts the project with is_completed false and the save
\* of update project leaves is_completed as it was, whatever the payload
\* carries; is_completed changes only in the recompute of a place operation
C16_CompletedNotSettable ==
    [][\A p \in ProjectIds :
          /\ \A w \in Workers :
                /\ Steps(w, "crt_create") /\ nextProject = p
                      => p \in DOMAIN projects' /\ projects'[p].is_completed = FALSE
                /\ Steps(w, "pupd_save") /\ req[w].proj = p
                      => /\ p \in DOMAIN projects /\ p \in DOMAIN projects'
                         /\ projects'[p].is_completed = projects[p].is_completed
          /\ p \in DOMAIN projects /\ p \in DOMAIN projects'
             /\ projects'[p].is_completed # projects[p].is_completed
                => \E w \in Workers : pc[w] \in {"upd_write", "del_write"}]_vars

C16_Witness ==
    /\ last["w1"] = [op |-> "update_project", kind |-> "OK"]
    /\ 1 \in DOMAIN projects
    /\ projects[1].is_completed = TRUE
    /\ projects[1].name = "tour"

\* C17: the place an add place creates stores the image_id the catalog holds
\* for its artwork
C17_ImageStored ==
    [][\A w \in Workers : \A a \in AddArtworks :
          Steps(w, "add_insert") /\ req[w].art = a
          /\ last'[w] = [op |-> "add_place", kind |-> "Created"]
             => \E k \in DOMAIN places' \ DOMAIN places :
                    /\ places'[k].artwork_id = a
                    /\ places'[k].image_id = CatalogRecord(a).image_id]_vars

\* C18: a lookup of an artwork_id that has no cache entry issues a catalog
\* request; only a 200 answer yields data and a cache entry, any other answer
\* yields none and leaves the cache as it is; the add place whose request was
\* answered 200 creates its place, whatever was answered before; and an entry
\* that appears in the cache is a successful result
C18_OnlySuccessCached ==
    [][/\ \A w \in Workers : \A a \in AddArtworks :
             /\ Steps(w, "add_lookup") /\ req[w].art = a /\ a \notin DOMAIN cache
                   => /\ req'[w].http \in ApiOutcomes
                      /\ req'[w].http = "200"
                            => /\ req'[w].data = {FetchResult(a)}
                               /\ cache' = Put(cache, a, CacheEntry(FetchResult(a)))
                      /\ req'[w].http # "200" => req'[w].data = {} /\ cache' = cache
             /\ Steps(w, "add_insert") /\ req[w].http = "200"
                   => last'[w] = [op |-> "add_place", kind |-> "Created"]
       /\ \A a \in DOMAIN cache' \ DOMAIN cache :
             /\ cache'[a] = CacheEntry(FetchResult(a))
             /\ \E w \in Workers : pc[w] \in {"idle", "crt_create", "add_lookup"}
                                   /\ (pc'[w] # pc[w] \/ nreq' # nreq)]_vars

C18_Witness ==
    /\ pc["w1"] = "add_insert"
    /\ req["w1"].http = "200"
    /\ last["w1"] = [op |-> "add_place", kind |-> "InvalidArtwork"]
    /\ DOMAIN cache = {req["w1"].art}

\* C19: add place proceeds past its first step only for an existing project;
\* its answer is that of the first failing check in the order place count
\* (LimitExceeded), artwork_id present (MissingField), artwork_id not in the
\* project (DuplicateArtwork), lookup (InvalidArtwork), and Created when none
\* fails; the lookup is issued only when the earlier checks pass
C19_CheckOrder ==
    [][\A w \in Workers :
          /\ pc[w] = "idle" /\ pc'[w] = "add_count" => req'[w].proj \in DOMAIN projects
          /\ pc[w] = "idle" /\ pc'[w] = "idle" /\ nreq' # nreq /\ last'[w].op = "add_place"
                => /\ last'[w].kind = "NotFound"
                   /\ \E p \in ProjectIds : p \notin DOMAIN projects
          /\ \A p \in ProjectIds : \A a \in AddArtworks :
                req[w].proj = p /\ req[w].art = a
                => /\ AddAnswers(w)
                      => last'[w] =
                            [op |-> "add_place",
                             kind |-> IF Cardinality(PlacesOf(p)) >= PLACE_LIMIT
                                      THEN "LimitExceeded"
                                      ELSE IF a = NoArtwork THEN "MissingField"
                                      ELSE IF Holds(p, a) THEN "DuplicateArtwork"
                                      ELSE IF req[w].data = {} THEN "InvalidArtwork"
                                      ELSE "Created"]
                   /\ Steps(w, "add_lookup")
                      => /\ p \in DOMAIN projects
                         /\ Cardinality(PlacesOf(p)) < PLACE_LIMIT
                         /\ a # NoArtwork
                         /\ ~Holds(p, a)]_vars

\* an add place without artwork_id on a full project, about to be checked
C19_Witness ==
    /\ pc["w1"] = "add_count"
    /\ req["w1"].art = NoArtwork
    /\ Cardinality(PlacesOf(req["w1"].proj)) = PLACE_LIMIT

\* C20: the delete of delete project never removes a project one of whose
\* places is visited
C20_DeleteAtomic ==
    [][\A w \in Workers : \A p \in ProjectIds :
          Steps(w, "pdel_delete") /\ req[w].proj = p /\ p \in DOMAIN projects
          /\ p \notin DOMAIN projects'
             => \A k \in PlacesOf(p) : ~places[k].visited]_vars

\* C21: while a place request addressed to project p is served, the row and the
\* places of every other project stay as they are; update and delete place go
\* past get_object only for a place of the project of the URL, and their
\* NotFound answer changes nothing; the list of places holds exactly the places
\* of the project of the URL
C21_ProjectsIndependent ==
    [][\A w \in Workers :
          /\ \A p \in SeveralProjectIds : \A q \in SeveralProjectIds :
                q # p /\ req[w].proj = p
                /\ req[w].op \in {"add_place", "update_place", "delete_place", "list_places"}
                => /\ q \in DOMAIN projects
                         => q \in DOMAIN projects' /\ projects'[q] = projects[q]
                   /\ \A k \in DOMAIN places :
                         places[k].project = q
                            => k \in DOMAIN places' /\ places'[k] = places[k]
                   /\ \A k \in DOMAIN places' : places'[k].project = q => k \in DOMAIN places
          /\ pc[w] = "idle" /\ pc'[w] \in {"upd_save", "del_project"}
                => /\ req'[w].pk \in DOMAIN places
                   /\ places[req'[w].pk].project = req'[w].proj
          /\ pc[w] = "idle" /\ pc'[w] = "idle" /\ nreq' # nreq
             /\ last'[w].op \in {"add_place", "update_place", "delete_place", "list_places"}
                => last'[w].kind = "NotFound" /\ UNCHANGED <<projects, places>>
          /\ pc[w] = "list_query" /\ pc'[w] = "list_respond"
                => /\ req'[w].pinst = { places[k] : k \in PlacesOf(req[w].proj) }
                   /\ \A r \in req'[w].pinst : r.project = req[w].proj]_vars

\* an update place on project 1 writes the flag while project 2 holds places
C21_Witness ==
    /\ pc["w1"] = "upd_write"
    /\ req["w1"].proj = 1
    /\ 2 \in DOMAIN projects
    /\ PlacesOf(2) # {}
    /\ PlacesOf(1) # {}

\* C22: the write of the recomputed flag by update place and delete place
\* leaves the name of the project as it is in the database
C22_RecomputeKeepsName ==
    [][\A w \in Workers : \A p \in ProjectIds :
          (Steps(w, "upd_write") \/ Steps(w, "del_write"))
          /\ req[w].proj = p /\ p \in DOMAIN projects
             => p \in DOMAIN projects' /\ projects'[p].name = projects[p].name]_vars

====
